---- MODULE Spec2Model ----
(***************************************************************************)
(* Model of the service integration tool                                   *)
(*   scripts/integrate/analyze_and_integrate.py   (script = "integrate")   *)
(*   scripts/analyze_and_integrate.py             (script = "scripts")     *)
(* One run of main(): fetch, analysis, interactive configuration, the      *)
(* confirmation gate, the file mutations of integrate(), and the finally   *)
(* clause that removes the workspace.                                      *)
(*                                                                         *)
(* Representation.  A Python str is a sequence of chunks, each chunk a     *)
(* TLA+ string: a single character where the code looks at characters      *)
(* (service name, hostname, the yes/no answer, the repository name), an    *)
(* opaque piece of text elsewhere.  A dict is a function on its keys.  A  *)
(* text file is a sequence of tokens: "\n", runs of indentation, and the   *)
(* pieces of text the anchor patterns of the code tell apart.              *)
(***************************************************************************)
EXTENDS Integers, Sequences, FiniteSets, TLC

VARIABLES
    script,          \* which copy of the script runs
    args,            \* argparse result and the fields __init__ derives from the URL
    repo,            \* what `git clone` would bring into the workspace
    pc,              \* position of main() in its code
    temp_dir,        \* ServiceAnalyzer.temp_dir
    workspace,       \* TRUE while the mkdtemp() directory exists on disk
    analysis,        \* ServiceAnalyzer.analysis / ServiceIntegrator.analysis
    service_name,    \* ServiceIntegrator.service_name
    locals,          \* local variables of interactive_config
    service_config,  \* ServiceIntegrator.service_config
    confirm,         \* the answer read at "Proceed? (yes/no): "
    files,           \* content of each target file under project_root
    console,         \* narration printed so far (the lines that mark a stage)
    pending,         \* why main() is leaving its try block
    exitCode         \* status passed to sys.exit, NoExit while running

vars == <<script, args, repo, pc, temp_dir, workspace, analysis, service_name,
          locals, service_config, confirm, files, console, pending, exitCode>>

---------------------------------------------------------------------------
(* Bounds of the model *)

MaxNameLen == 3      \* longest answer typed at the service-name prompt
MaxManifestLen == 4  \* tokens of the manifest before the first mutation
MaxRuns == 2         \* times one mutation is re-run on the same file
MaxFileLines == 4    \* lines of a target file before the first mutation

---------------------------------------------------------------------------
(* Python values *)

None == <<"<None>">>
EmptyStr == <<>>
EmptyDict == [k \in {} |-> TRUE]

\* bool(x) of a str-or-None value
Truthy(x) == x # EmptyStr /\ x # None

\* dict.get(key, default)
Get(d, key, default) == IF key \in DOMAIN d THEN d[key] ELSE default

\* {**a, **b}: the keys of both, b's value where both have the key
Merge(a, b) ==
    [k \in DOMAIN a \cup DOMAIN b |-> IF k \in DOMAIN b THEN b[k] ELSE a[k]]

LowerLetters == <<"a","b","c","d","e","f","g","h","i","j","k","l","m",
                  "n","o","p","q","r","s","t","u","v","w","x","y","z">>
UpperLetters == <<"A","B","C","D","E","F","G","H","I","J","K","L","M",
                  "N","O","P","Q","R","S","T","U","V","W","X","Y","Z">>
Digits == {"0","1","2","3","4","5","6","7","8","9"}

Range(s) == {s[i] : i \in DOMAIN s}

lowerChar(c) ==
    IF c \in Range(UpperLetters)
    THEN LowerLetters[CHOOSE i \in DOMAIN UpperLetters : UpperLetters[i] = c]
    ELSE c
upperChar(c) ==
    IF c \in Range(LowerLetters)
    THEN UpperLetters[CHOOSE i \in DOMAIN LowerLetters : LowerLetters[i] = c]
    ELSE c

\* str.lower(), str.upper(), str.replace(c, '')
lower(s) == [i \in DOMAIN s |-> lowerChar(s[i])]
upper(s) == [i \in DOMAIN s |-> upperChar(s[i])]
remove(s, c) == SelectSeq(s, LAMBDA x : x # c)

\* re.sub(r'[^a-z0-9-]', '', s)
NameChars == Range(LowerLetters) \cup Digits \cup {"-"}
NameCharsWithUnderscore == NameChars \cup {"_"}
NormalizeKeepsUnderscore(s) == SelectSeq(s, LAMBDA c : c \in NameCharsWithUnderscore)
NormalizeServiceName(s) == SelectSeq(s, LAMBDA c : c \in NameChars)

\* confirm.lower() == 'yes'
YesOrY(c) == lower(c) \in {<<"y","e","s">>, <<"y">>}
IsYes(c) == lower(c) = <<"y","e","s">>

---------------------------------------------------------------------------
(* The cloned repository, as the facts the inspectors' patterns find in it *)

NoDockerfile == [exists |-> FALSE, exposed_ports |-> <<>>, env_vars |-> <<>>]
Dockerfiles ==
    { NoDockerfile,
      [exists |-> TRUE, exposed_ports |-> << <<"5000">> >>, env_vars |-> << <<"FOO">> >>] }

NoCompose ==
    [exists |-> FALSE, file |-> EmptyStr, services |-> <<>>, image |-> None,
     ports |-> <<>>, env_vars |-> <<>>, content |-> {}]
ComposeFile(ports, image, words) ==
    [exists |-> TRUE, file |-> <<"docker-compose.yml">>, services |-> << <<"app">> >>,
     image |-> image, ports |-> ports, env_vars |-> << <<"BAR">> >>, content |-> words]
ComposeFiles ==
    { NoCompose,
      ComposeFile(<<>>, None, {}),
      ComposeFile(<< <<"8080">>, <<"9090">> >>, <<"img:1">>, {"postgres"}),
      ComposeFile(<< <<"8080">> >>, <<"img:1">>, {"redis", "mariadb"}),
      ComposeFile(<< <<"8080">> >>, <<"img:1">>, {"postgres", "redis"}) }

NoReadme ==
    [exists |-> FALSE, title |-> None, description |-> EmptyStr,
     has_docker_section |-> FALSE, documented_env_vars |-> <<>>]
Readmes ==
    { NoReadme,
      [exists |-> TRUE, title |-> <<"Title">>, description |-> <<"readme text">>,
       has_docker_section |-> TRUE, documented_env_vars |-> << <<"API_KEY">> >>] }

NoPackage == [exists |-> FALSE, valid |-> TRUE, name |-> None, description |-> None,
              version |-> None]
Packages ==
    { NoPackage,
      [exists |-> TRUE, valid |-> FALSE, name |-> None, description |-> None,
       version |-> None],
      [exists |-> TRUE, valid |-> TRUE, name |-> <<"pkg">>, description |-> None,
       version |-> <<"1.0.0">>],
      [exists |-> TRUE, valid |-> TRUE, name |-> <<"pkg">>,
       description |-> <<"package text">>, version |-> <<"1.0.0">>] }

Repos ==
    [dockerfile : Dockerfiles, compose : ComposeFiles, readme : Readmes,
     package : Packages]

RepoNames == { <<"M","-","_","1">> }
Arguments == [repo_name : RepoNames, repo_owner : {<<"own">>}, auto : BOOLEAN]

---------------------------------------------------------------------------
(* ServiceAnalyzer: the four inspectors and run_analysis *)

analyze_dockerfile(r) ==
    IF ~r.dockerfile.exists THEN EmptyDict
    ELSE [has_dockerfile |-> TRUE,
          exposed_ports |-> r.dockerfile.exposed_ports,
          env_vars |-> r.dockerfile.env_vars]

analyze_docker_compose(r) ==
    IF ~r.compose.exists THEN EmptyDict
    ELSE [has_docker_compose |-> TRUE,
          compose_file |-> r.compose.file,
          services |-> r.compose.services,
          image |-> r.compose.image,
          ports |-> r.compose.ports,
          env_vars |-> r.compose.env_vars,
          needs_postgres |-> "postgres" \in r.compose.content,
          needs_redis |-> "redis" \in r.compose.content,
          needs_mysql |-> "mysql" \in r.compose.content \/ "mariadb" \in r.compose.content]

analyze_readme(r, a) ==
    IF ~r.readme.exists THEN EmptyDict
    ELSE [title |-> IF r.readme.title # None THEN r.readme.title ELSE a.repo_name,
          description |-> r.readme.description,
          has_docker_section |-> r.readme.has_docker_section,
          documented_env_vars |-> r.readme.documented_env_vars]

analyze_package_json(r) ==
    IF ~r.package.exists THEN EmptyDict
    ELSE [name |-> r.package.name,
          description |-> r.package.description,
          version |-> r.package.version,
          is_nodejs |-> TRUE]

\* json.load raises on a package.json that is not valid JSON
InspectorRaises(r) == r.package.exists /\ ~r.package.valid

Inspectors(r, a) ==
    << analyze_dockerfile(r), analyze_docker_compose(r), analyze_readme(r, a),
       analyze_package_json(r) >>

run_analysis(r, a) ==
    LET base == [repo_name |-> a.repo_name, repo_owner |-> a.repo_owner,
                 github_url |-> <<"https://github.com/">> \o a.repo_owner \o <<"/">>
                                \o a.repo_name]
        ins == Inspectors(r, a)
    IN Merge(Merge(Merge(Merge(base, ins[1]), ins[2]), ins[3]), ins[4])

\* main(): the repository has neither a compose manifest nor a Dockerfile
NoDockerSupportUnlessReadme(a) ==
    /\ ~Get(a, "has_docker_compose", FALSE)
    /\ ~Get(a, "has_dockerfile", FALSE)
    /\ ~Get(a, "has_docker_section", FALSE)
NoDockerSupport(a) ==
    ~Get(a, "has_docker_compose", FALSE) /\ ~Get(a, "has_dockerfile", FALSE)

---------------------------------------------------------------------------
(* Text files as token sequences *)

Tok(text, arg) == [k |-> text, a |-> arg]
Lit(text) == Tok(text, <<>>)
NL == Lit("\n")
Indent(n) == Tok(" ", [i \in 1..n |-> " "])
Line(n, toks) == (IF n = 0 THEN <<>> ELSE <<Indent(n)>>) \o toks \o <<NL>>

InsertAt(content, i, block) ==
    SubSeq(content, 1, i) \o block \o SubSeq(content, i + 1, Len(content))

Min(S) == CHOOSE i \in S : \A j \in S : i <= j
\* least member of S, 0 when S is empty (re.sub with count=1 takes the leftmost match)
First(S) == IF S = {} THEN 0 ELSE Min(S)

RECURSIVE Flatten(_)
Flatten(ss) == IF ss = <<>> THEN <<>> ELSE Head(ss) \o Flatten(Tail(ss))

TargetFiles ==
    {"docker-compose.yml", ".env.example", "Caddyfile", "04_wizard.sh",
     "03_generate_secrets.sh", "07_final_report.sh"}

---------------------------------------------------------------------------
(* ServiceIntegrator.add_to_docker_compose *)

\* the stanza with depends_on: written whatever the flags are
service_block_depends_always(c) ==
    <<NL>>
    \o Line(2, <<Tok("{name}:", c.name)>>)
    \o Line(4, <<Tok("image: {image}", c.image)>>)
    \o Line(4, <<Tok("container_name: {name}", c.name)>>)
    \o Line(4, <<Tok("profiles: [\"{name}\"]", c.name)>>)
    \o Line(4, <<Lit("restart: unless-stopped")>>)
    \o Line(4, <<Lit("environment:")>>)
    \o Line(6, <<Tok("APP_URL: ${{NAME}_HOSTNAME:+https://}${{NAME}_HOSTNAME}",
                     upper(c.name))>>)
    \o Line(4, <<Lit("depends_on:")>>)
    \o (IF c.needs_postgres
        THEN Line(6, <<Lit("postgres:")>>) \o Line(8, <<Lit("condition: service_healthy")>>)
        ELSE <<>>)
    \o (IF c.needs_redis
        THEN Line(6, <<Lit("redis:")>>) \o Line(8, <<Lit("condition: service_healthy")>>)
        ELSE <<>>)

service_block(c) ==
    <<NL>>
    \o Line(2, <<Tok("{name}:", c.name)>>)
    \o Line(4, <<Tok("image: {image}", c.image)>>)
    \o Line(4, <<Tok("container_name: {name}", c.name)>>)
    \o Line(4, <<Tok("profiles: [\"{name}\"]", c.name)>>)
    \o Line(4, <<Lit("restart: unless-stopped")>>)
    \o Line(4, <<Lit("environment:")>>)
    \o Line(6, <<Tok("APP_URL: ${{NAME}_HOSTNAME:+https://}${{NAME}_HOSTNAME}",
                     upper(c.name))>>)
    \o (IF c.needs_postgres \/ c.needs_redis
        THEN Line(4, <<Lit("depends_on:")>>)
             \o (IF c.needs_postgres
                 THEN Line(6, <<Lit("postgres:")>>)
                      \o Line(8, <<Lit("condition: service_healthy")>>)
                 ELSE <<>>)
             \o (IF c.needs_redis
                 THEN Line(6, <<Lit("redis:")>>)
                      \o Line(8, <<Lit("condition: service_healthy")>>)
                 ELSE <<>>)
        ELSE <<>>)

volume_line(c) == Line(2, <<Tok("{name}_data:", c.name)>>)

\* the pattern r'(volumes:\n)' matches at token i
VolumesAnchor(content, i) ==
    /\ i + 1 <= Len(content)
    /\ content[i] = Lit("volumes:")
    /\ content[i + 1] = NL

\* re.sub(r'(volumes:\n)', f'\\1  {volume_name}:\n', content, count=1)
SubVolumesEveryMatch(content, c) ==
    Flatten([i \in DOMAIN content |->
                IF i > 1 /\ VolumesAnchor(content, i - 1)
                THEN <<content[i]>> \o volume_line(c)
                ELSE <<content[i]>>])
SubVolumes(content, c) ==
    LET i == First({j \in DOMAIN content : VolumesAnchor(content, j)})
    IN IF i = 0 THEN content ELSE InsertAt(content, i + 1, volume_line(c))

add_to_docker_compose(content, c) == SubVolumes(content \o service_block(c), c)

---------------------------------------------------------------------------
(* ServiceIntegrator.add_to_env_example and add_to_caddyfile *)

description_line(s, c) ==
    IF s = "integrate" /\ ~Truthy(c.description)
    THEN <<"Service configuration">>
    ELSE c.description

config_block(s, c) ==
    <<NL>>
    \o Line(0, <<Lit("############")>>)
    \o Line(0, <<Tok("# {display_name} Configuration", c.display_name)>>)
    \o Line(0, <<Tok("# {description_line}", description_line(s, c))>>)
    \o Line(0, <<Lit("############")>>)
    \o Line(0, <<Tok("{NAME}_HOSTNAME=", upper(c.name)),
                 Tok("{hostname}.yourdomain.com", c.hostname)>>)
    \o Line(0, <<Tok("{NAME}_APP_SECRET=", upper(c.name))>>)

add_to_env_example(content, s, c) == content \o config_block(s, c)

caddy_block(c) ==
    <<NL>>
    \o Line(0, <<Tok("# {display_name}", c.display_name)>>)
    \o Line(0, <<Tok("{{NAME}_HOSTNAME} {", upper(c.name))>>)
    \o Line(4, <<Tok("reverse_proxy {name}:", c.name), Tok("{port}", c.port)>>)
    \o Line(0, <<Lit("}")>>)

add_to_caddyfile(content, c) == content \o caddy_block(c)

---------------------------------------------------------------------------
(* ServiceIntegrator.add_to_wizard *)

\* one menu entry of the wizard's data block:  "<id>" "<text>"
Entry(id, text) == Tok("\"{id}\" \"{text}\"", id \o <<"\" \"">> \o text)
\* "<id>" in quotes without a description after it
Quoted(id) == Tok("\"{id}\"", id)

IsEntryOf(tok, id) ==
    /\ tok.k = "\"{id}\" \"{text}\""
    /\ Len(tok.a) > Len(id)
    /\ SubSeq(tok.a, 1, Len(id) + 1) = id \o <<"\" \"">>
\* the file content has '"<id>"' as a substring
MentionsQuoted(content, id) ==
    \E i \in DOMAIN content : IsEntryOf(content[i], id) \/ content[i] = Quoted(id)
EndsWithQuote(tok) == tok.k \in {"\"{id}\" \"{text}\"", "\"{id}\"", ")\""}
StartsWithCloseParen(tok) == tok.k \in {")", ")\""}

\* index of the "\n" that ends the line token i is on, 0 when the line is the
\* last one and has no "\n"
LineEnd(content, i) == First({n \in i..Len(content) : content[n] = NL})

\* r'("<id>" ".*?")\n' matches from token i: the entry starts there and the
\* line it is on ends with a double quote
EntryAnchor(content, i, id) ==
    /\ IsEntryOf(content[i], id)
    /\ LineEnd(content, i) # 0
    /\ EndsWithQuote(content[LineEnd(content, i) - 1])

service_line(c) == Line(4, <<Entry(c.name, c.display_name)>>)

SubEntry(content, id, c) ==
    LET i == First({j \in DOMAIN content : EntryAnchor(content, j, id)})
    IN IF i = 0 THEN content
       ELSE InsertAt(content, LineEnd(content, i), service_line(c))

\* r'(\nbase_services_data=\([^)]+)' matches from token i
DataBlockAnchor(content, i) ==
    /\ i + 2 <= Len(content)
    /\ content[i] = NL
    /\ content[i + 1] = Lit("base_services_data=(")
    /\ ~StartsWithCloseParen(content[i + 2])
\* the last token [^)]+ takes in: the one before the first ")" after the marker
DataBlockEnd(content, i) ==
    LET close == First({j \in (i + 2)..Len(content) : StartsWithCloseParen(content[j])})
    IN IF close = 0 THEN Len(content) ELSE close - 1

SubDataBlock(content, c) ==
    LET i == First({j \in DOMAIN content : DataBlockAnchor(content, j)})
    IN IF i = 0 THEN content
       ELSE InsertAt(content, DataBlockEnd(content, i), <<NL>> \o service_line(c))

Outline == <<"outline">>
Docmost == <<"docmost">>

add_to_wizard(content, c) ==
    IF MentionsQuoted(content, Outline) THEN SubEntry(content, Outline, c)
    ELSE IF MentionsQuoted(content, Docmost) THEN SubEntry(content, Docmost, c)
    ELSE SubDataBlock(content, c)

---------------------------------------------------------------------------
(* ServiceIntegrator.add_to_secrets *)

\* ["<NAME>_APP_SECRET"]="hex:64"
SecretDecl(name) == Tok("[\"{NAME}_APP_SECRET\"]=\"hex:64\"", name)
\* any other text with <NAME>_APP_SECRET in it
SecretUse(name) == Tok("{NAME}_APP_SECRET", name)

MentionsSecret(content, name) ==
    \E i \in DOMAIN content : content[i] \in {SecretDecl(name), SecretUse(name)}

secret_line(c) == Line(4, <<SecretDecl(upper(c.name))>>)

\* r'(\["<NAME>_APP_SECRET"\]="hex:64")\n' matches at token i
SecretAnchor(content, i, name) ==
    /\ i + 1 <= Len(content)
    /\ content[i] = SecretDecl(name)
    /\ content[i + 1] = NL

SubSecret(content, name, c) ==
    LET i == First({j \in DOMAIN content : SecretAnchor(content, j, name)})
    IN IF i = 0 THEN content ELSE InsertAt(content, i + 1, secret_line(c))

\* r'(\n\))' matches at token i
CloseParenAnchor(content, i) ==
    /\ i + 1 <= Len(content)
    /\ content[i] = NL
    /\ StartsWithCloseParen(content[i + 1])

SubCloseParen(content, c) ==
    LET i == First({j \in DOMAIN content : CloseParenAnchor(content, j)})
    IN IF i = 0 THEN content ELSE InsertAt(content, i - 1, secret_line(c))

OUTLINE == <<"OUTLINE">>
DOCMOST == <<"DOCMOST">>

add_to_secrets(content, c) ==
    IF MentionsSecret(content, OUTLINE) THEN SubSecret(content, OUTLINE, c)
    ELSE IF MentionsSecret(content, DOCMOST) THEN SubSecret(content, DOCMOST, c)
    ELSE SubCloseParen(content, c)

---------------------------------------------------------------------------
(* ServiceIntegrator.add_to_final_report *)

\* if is_profile_active "<id>"          (what follows it is a token of its own)
IfActive(id) == Tok("if is_profile_active \"{id}\"", id)
\* is_profile_active "<id>" with no "if " right before it
Active(id) == Tok("is_profile_active \"{id}\"", id)
Then == Lit("; then")
Fi == Lit("fi")

MentionsActive(content, id) ==
    \E i \in DOMAIN content : content[i] \in {IfActive(id), Active(id)}

report_block(c) ==
    <<NL>>
    \o Line(0, <<IfActive(c.name), Then>>)
    \o Line(2, <<Lit("echo")>>)
    \o Line(2, <<Tok("echo \"================================= {display_name} ============================\"",
                     c.display_name)>>)
    \o Line(2, <<Lit("echo")>>)
    \o Line(2, <<Tok("echo \"Host: ${{NAME}_HOSTNAME:-<hostname_not_set>}\"",
                     upper(c.name))>>)
    \o Line(2, <<Tok("echo \"Description: {description}\"", c.description)>>)
    \o Line(2, <<Lit("echo")>>)
    \o Line(2, <<Lit("echo \"First Time Setup:\"")>>)
    \o Line(2, <<Tok("echo \"  - Visit https://${{NAME}_HOSTNAME:-<hostname_not_set>}\"",
                     upper(c.name))>>)
    \o Line(2, <<Lit("echo \"  - Create your admin account\"")>>)
    \o Line(0, <<Fi>>)

\* ^fi (re.MULTILINE) matches at token j
FiAtLineStart(content, j) ==
    /\ content[j] = Fi
    /\ j > 1 /\ content[j - 1] = NL
\* the first ^fi after the opening test at token i, 0 when there is none
BlockEnd(content, i) ==
    First({j \in (i + 2)..Len(content) : FiAtLineStart(content, j)})
\* r'(if is_profile_active "<id>"; then.*?^fi)' matches from token i
BlockAnchor(content, i, id) ==
    /\ i + 1 <= Len(content)
    /\ content[i] = IfActive(id)
    /\ content[i + 1] = Then
    /\ BlockEnd(content, i) # 0

SubBlockAfter(content, id, c) ==
    LET i == First({j \in DOMAIN content : BlockAnchor(content, j, id)})
    IN IF i = 0 THEN content
       ELSE InsertAt(content, BlockEnd(content, i), <<NL>> \o report_block(c))

\* re.sub(r'(if is_profile_active "<id>")', f'{report_block}\n\\1', content, count=1)
SubBlockBefore(content, id, c) ==
    LET i == First({j \in DOMAIN content : content[j] = IfActive(id)})
    IN IF i = 0 THEN content
       ELSE InsertAt(content, i - 1, report_block(c) \o <<NL>>)

Paddleocr == <<"paddleocr">>
PythonRunner == <<"python-runner">>

add_to_final_report(content, c) ==
    IF MentionsActive(content, Outline) THEN SubBlockAfter(content, Outline, c)
    ELSE IF MentionsActive(content, Docmost) THEN SubBlockAfter(content, Docmost, c)
    ELSE IF MentionsActive(content, Paddleocr) THEN SubBlockBefore(content, Paddleocr, c)
    ELSE IF MentionsActive(content, PythonRunner)
         THEN SubBlockBefore(content, PythonRunner, c)
    ELSE content

---------------------------------------------------------------------------
(* The run: state before main() and the answers a user may type *)

\* integrate(): the mutations in the order each copy of the script calls them
MutationOrder(s) ==
    IF s = "integrate"
    THEN <<"add_to_docker_compose", "add_to_env_example", "add_to_caddyfile",
           "add_to_wizard", "add_to_secrets", "add_to_final_report">>
    ELSE <<"add_to_docker_compose", "add_to_env_example", "add_to_caddyfile">>

Mutations == Range(MutationOrder("integrate"))

\* the file each mutation opens
TargetOf(m) ==
    CASE m = "add_to_docker_compose" -> "docker-compose.yml"
      [] m = "add_to_env_example"    -> ".env.example"
      [] m = "add_to_caddyfile"      -> "Caddyfile"
      [] m = "add_to_wizard"         -> "04_wizard.sh"
      [] m = "add_to_secrets"        -> "03_generate_secrets.sh"
      [] m = "add_to_final_report"   -> "07_final_report.sh"

\* position after mutation m returns
AfterMutation(s, m) ==
    LET order == MutationOrder(s)
        i == CHOOSE j \in DOMAIN order : order[j] = m
    IN IF i < Len(order) THEN order[i + 1] ELSE "integrate_end"

Prompts ==
    {"prompt_name", "prompt_display", "prompt_desc", "prompt_port", "prompt_image",
     "prompt_hostname", "prompt_confirm"}

InitialFiles ==
    [f \in TargetFiles |->
        CASE f = "docker-compose.yml" ->
                 Line(0, <<Lit("volumes:")>>)
                 \o Line(2, <<Lit("n8n_storage:")>>)
                 \o Line(0, <<Lit("services:")>>)
                 \o Line(2, <<Lit("n8n:")>>)
                 \o Line(4, <<Lit("volumes:")>>)
                 \o Line(6, <<Lit("- n8n_storage:/home/node/.n8n")>>)
          [] f = ".env.example" -> Line(0, <<Lit("N8N_HOSTNAME=n8n.yourdomain.com")>>)
          [] f = "Caddyfile" ->
                 Line(0, <<Lit("{$N8N_HOSTNAME} {")>>)
                 \o Line(4, <<Lit("reverse_proxy n8n:5678")>>)
                 \o Line(0, <<Lit("}")>>)
          [] f = "04_wizard.sh" ->
                 Line(0, <<Lit("#!/bin/bash")>>)
                 \o Line(0, <<Lit("base_services_data=(")>>)
                 \o Line(4, <<Entry(<<"n8n">>, <<"n8n">>)>>)
                 \o Line(4, <<Entry(Outline, <<"Outline">>)>>)
                 \o Line(0, <<Lit(")")>>)
          [] f = "03_generate_secrets.sh" ->
                 Line(0, <<Lit("declare -A VARS_TO_GENERATE=(")>>)
                 \o Line(4, <<SecretDecl(OUTLINE)>>)
                 \o Line(0, <<Lit(")")>>)
          [] f = "07_final_report.sh" ->
                 Line(0, <<IfActive(Outline), Then>>)
                 \o Line(2, <<Lit("echo")>>)
                 \o Line(0, <<Fi>>)
                 \o Line(0, <<IfActive(Paddleocr), Then>>)
                 \o Line(2, <<Lit("echo")>>)
                 \o Line(0, <<Fi>>)]

NameAnswers == {EmptyStr, <<"2","-","A","b">>}
TextAnswers == {EmptyStr, <<"typed">>}
PortAnswers == {EmptyStr, <<"9000">>}
HostAnswers == {EmptyStr, <<"h">>}
ConfirmAnswers == {<<"Y","e","s">>, <<"n","o">>, <<"y">>}

\* tempfile.mkdtemp()
WorkspacePath == <<"/tmp/tmpdir">>

Init ==
    /\ script \in {"scripts", "integrate"}
    /\ args \in Arguments
    /\ repo \in Repos
    /\ pc = "start"
    /\ temp_dir = None
    /\ workspace = FALSE
    /\ analysis = EmptyDict
    /\ service_name = None
    /\ locals = EmptyDict
    /\ service_config = EmptyDict
    /\ confirm = None
    /\ files = InitialFiles
    /\ console = <<>>
    /\ pending = "none"
    /\ exitCode = -1

Say(who, what) == console' = Append(console, <<who, what>>)

\* an exception (or a return) leaves the try block of main()
Leave(reason) == pending' = reason /\ pc' = "finally"

---------------------------------------------------------------------------
(* run_analysis *)

\* tempfile.mkdtemp() raises: no directory was made and temp_dir stays None
MkdtempFails ==
    /\ pc = "start"
    /\ Leave("OSError")
    /\ UNCHANGED <<script, args, repo, temp_dir, workspace, analysis, service_name,
                   locals, service_config, confirm, files, console, exitCode>>

\* git clone exits non-zero: subprocess.run(check=True) raises
CloneFails ==
    /\ pc = "start"
    /\ temp_dir' = WorkspacePath
    /\ workspace' = TRUE
    /\ Say("clone_repo", "Cloning repository...")
    /\ Leave("CalledProcessError")
    /\ UNCHANGED <<script, args, repo, analysis, service_name, locals,
                   service_config, confirm, files, exitCode>>

CloneRepo ==
    /\ pc = "start"
    /\ temp_dir' = WorkspacePath
    /\ workspace' = TRUE
    /\ console' = console \o << <<"clone_repo", "Cloning repository...">>,
                                <<"clone_repo", "Repository cloned">> >>
    /\ pc' = "fetched"
    /\ UNCHANGED <<script, args, repo, analysis, service_name, locals,
                   service_config, confirm, files, pending, exitCode>>

InspectorFails ==
    /\ pc = "fetched"
    /\ InspectorRaises(repo)
    /\ Leave("JSONDecodeError")
    /\ UNCHANGED <<script, args, repo, temp_dir, workspace, analysis, service_name,
                   locals, service_config, confirm, files, console, exitCode>>

RunInspectors ==
    /\ pc = "fetched"
    /\ ~InspectorRaises(repo)
    /\ analysis' = run_analysis(repo, args)
    /\ Say("main", "Analysis Results:")
    /\ pc' = "analyzed"
    /\ UNCHANGED <<script, args, repo, temp_dir, workspace, service_name, locals,
                   service_config, confirm, files, pending, exitCode>>

---------------------------------------------------------------------------
(* main(): the build-signal check *)

NoDockerSupportStop ==
    /\ pc = "analyzed"
    /\ NoDockerSupport(analysis)
    /\ Say("main", "Error: No Docker support found")
    /\ Leave("no_docker_support")
    /\ UNCHANGED <<script, args, repo, temp_dir, workspace, analysis, service_name,
                   locals, service_config, confirm, files, exitCode>>

StartConfig ==
    /\ pc = "analyzed"
    /\ ~NoDockerSupport(analysis)
    /\ Say("interactive_config", "Service Configuration")
    /\ pc' = "prompt_name"
    /\ UNCHANGED <<script, args, repo, temp_dir, workspace, analysis, service_name,
                   locals, service_config, confirm, files, pending, exitCode>>

---------------------------------------------------------------------------
(* ServiceIntegrator.interactive_config, one input() call per step *)

\* input(prompt) or default
Or(answer, default) == IF answer # EmptyStr THEN answer ELSE default

default_name(a) == remove(remove(lower(a["repo_name"]), "-"), "_")

default_display(a) == Get(a, "title", a["repo_name"])

\* the value [:50] is applied to while the description prompt is built
default_desc(s, a) ==
    LET d == Get(a, "description", EmptyStr)
    IN IF s = "integrate" THEN (IF Truthy(d) THEN d ELSE EmptyStr) ELSE d
\* None[:50] raises TypeError
DescRaises(s, a) == default_desc(s, a) = None

\* scripts/: self.analysis.get('ports', [None])[0] raises IndexError on []
PortRaises(s, a) == s = "scripts" /\ Get(a, "ports", <<None>>) = <<>>
default_port_or_exposed(s, a) ==
    LET ports_list == Get(a, "ports", <<>>) \o Get(a, "exposed_ports", <<>>)
    IN IF ports_list # <<>> THEN ports_list[1] ELSE <<"3000">>
default_port(s, a) ==
    IF s = "integrate"
    THEN LET ports_list == Get(a, "ports", <<>>)
         IN IF ports_list # <<>> THEN ports_list[1] ELSE <<"3000">>
    ELSE LET first == Get(a, "ports", <<None>>)[1]
         IN IF Truthy(first) THEN first ELSE <<"3000">>

default_image(a) ==
    Get(a, "image", a["repo_owner"] \o <<"/">> \o a["repo_name"] \o <<":latest">>)

PromptNameFrom(answers) ==
    /\ pc = "prompt_name"
    /\ \E r \in answers :
           service_name' = NormalizeServiceName(Or(r, default_name(analysis)))
    /\ pc' = "prompt_display"
    /\ UNCHANGED <<script, args, repo, temp_dir, workspace, analysis, locals,
                   service_config, confirm, files, console, pending, exitCode>>

PromptName == PromptNameFrom(NameAnswers)

PromptDisplay ==
    /\ pc = "prompt_display"
    /\ \E r \in TextAnswers :
           locals' = [display_name |-> Or(r, default_display(analysis))]
    /\ pc' = "prompt_desc"
    /\ UNCHANGED <<script, args, repo, temp_dir, workspace, analysis, service_name,
                   service_config, confirm, files, console, pending, exitCode>>

PromptDescFails ==
    /\ pc = "prompt_desc"
    /\ DescRaises(script, analysis)
    /\ Leave("TypeError")
    /\ UNCHANGED <<script, args, repo, temp_dir, workspace, analysis, service_name,
                   locals, service_config, confirm, files, console, exitCode>>

PromptDesc ==
    /\ pc = "prompt_desc"
    /\ ~DescRaises(script, analysis)
    /\ \E r \in TextAnswers :
           locals' = Merge(locals, [description |-> Or(r, default_desc(script, analysis))])
    /\ pc' = "prompt_port"
    /\ UNCHANGED <<script, args, repo, temp_dir, workspace, analysis, service_name,
                   service_config, confirm, files, console, pending, exitCode>>

PromptPortFails ==
    /\ pc = "prompt_port"
    /\ PortRaises(script, analysis)
    /\ Leave("IndexError")
    /\ UNCHANGED <<script, args, repo, temp_dir, workspace, analysis, service_name,
                   locals, service_config, confirm, files, console, exitCode>>

PromptPort ==
    /\ pc = "prompt_port"
    /\ ~PortRaises(script, analysis)
    /\ \E r \in PortAnswers :
           locals' = Merge(locals, [port |-> Or(r, default_port(script, analysis))])
    /\ pc' = "prompt_image"
    /\ UNCHANGED <<script, args, repo, temp_dir, workspace, analysis, service_name,
                   service_config, confirm, files, console, pending, exitCode>>

PromptImage ==
    /\ pc = "prompt_image"
    /\ \E r \in TextAnswers :
           locals' = Merge(locals, [image |-> Or(r, default_image(analysis))])
    /\ pc' = "prompt_hostname"
    /\ UNCHANGED <<script, args, repo, temp_dir, workspace, analysis, service_name,
                   service_config, confirm, files, console, pending, exitCode>>

PromptHostname ==
    /\ pc = "prompt_hostname"
    /\ \E r \in HostAnswers :
           service_config' =
               [name |-> service_name,
                display_name |-> locals["display_name"],
                description |-> locals["description"],
                port |-> locals["port"],
                image |-> locals["image"],
                hostname |-> Or(r, service_name),
                needs_postgres |-> Get(analysis, "needs_postgres", FALSE),
                needs_redis |-> Get(analysis, "needs_redis", FALSE)]
    /\ Say("interactive_config", "Summary:")
    /\ pc' = "prompt_confirm"
    /\ UNCHANGED <<script, args, repo, temp_dir, workspace, analysis, service_name,
                   locals, confirm, files, pending, exitCode>>

\* interactive_config returns True and main() calls integrate()
Proceed ==
    /\ pc = "prompt_confirm"
    /\ \E r \in ConfirmAnswers :
           /\ IsYes(r)
           /\ confirm' = r
    /\ Say("integrate", "Integrating into n8n-installer...")
    /\ pc' = MutationOrder(script)[1]
    /\ UNCHANGED <<script, args, repo, temp_dir, workspace, analysis, service_name,
                   locals, service_config, files, pending, exitCode>>

\* interactive_config returns False and main() returns 1
Cancel ==
    /\ pc = "prompt_confirm"
    /\ \E r \in ConfirmAnswers :
           /\ ~IsYes(r)
           /\ confirm' = r
    /\ Say("main", "Integration cancelled")
    /\ Leave("cancelled")
    /\ UNCHANGED <<script, args, repo, temp_dir, workspace, analysis, service_name,
                   locals, service_config, files, exitCode>>

\* input() raises EOFError when standard input is closed
InputEOF ==
    /\ pc \in Prompts
    /\ ~(pc = "prompt_desc" /\ DescRaises(script, analysis))
    /\ ~(pc = "prompt_port" /\ PortRaises(script, analysis))
    /\ Leave("EOFError")
    /\ UNCHANGED <<script, args, repo, temp_dir, workspace, analysis, service_name,
                   locals, service_config, confirm, files, console, exitCode>>

---------------------------------------------------------------------------
(* ServiceIntegrator.integrate: the mutations, each a read-modify-write of
   its own file *)

Mutated(m, content, s, c) ==
    CASE m = "add_to_docker_compose" -> add_to_docker_compose(content, c)
      [] m = "add_to_env_example"    -> add_to_env_example(content, s, c)
      [] m = "add_to_caddyfile"      -> add_to_caddyfile(content, c)
      [] m = "add_to_wizard"         -> add_to_wizard(content, c)
      [] m = "add_to_secrets"        -> add_to_secrets(content, c)
      [] m = "add_to_final_report"   -> add_to_final_report(content, c)

\* the file a mutation writes
WritesAlsoManifest(m) == IF m = "add_to_caddyfile" THEN "docker-compose.yml" ELSE TargetOf(m)
Writes(m) == TargetOf(m)

Mutate(m) ==
    /\ pc = m
    /\ files' = [files EXCEPT ![Writes(m)] = Mutated(m, files[Writes(m)], script, service_config)]
    /\ console' = console \o << <<m, "Updating">>, <<m, "Added">> >>
    /\ pc' = AfterMutation(script, m)
    /\ UNCHANGED <<script, args, repo, temp_dir, workspace, analysis, service_name,
                   locals, service_config, confirm, pending, exitCode>>

AddToDockerCompose == Mutate("add_to_docker_compose")
AddToEnvExample == Mutate("add_to_env_example")
AddToCaddyfile == Mutate("add_to_caddyfile")
AddToWizard == Mutate("add_to_wizard")
AddToSecrets == Mutate("add_to_secrets")
AddToFinalReport == Mutate("add_to_final_report")

\* a failing mutation that restores every target file before it raises
MutationFailsAndRestores ==
    /\ pc \in Mutations
    /\ files' = InitialFiles
    /\ Say(pc, "Updating")
    /\ Leave("OSError")
    /\ UNCHANGED <<script, args, repo, temp_dir, workspace, analysis, service_name,
                   locals, service_config, confirm, exitCode>>

\* the first open() of a mutation raises OSError: nothing was written
MutationFails ==
    /\ pc \in Mutations
    /\ Say(pc, "Updating")
    /\ Leave("OSError")
    /\ UNCHANGED <<script, args, repo, temp_dir, workspace, analysis, service_name,
                   locals, service_config, confirm, files, exitCode>>

\* add_to_docker_compose appended the stanza, then open(..., 'r') raises
ManifestReopenFails ==
    /\ pc = "add_to_docker_compose"
    /\ files' = [files EXCEPT !["docker-compose.yml"] = @ \o service_block(service_config)]
    /\ Say(pc, "Updating")
    /\ Leave("OSError")
    /\ UNCHANGED <<script, args, repo, temp_dir, workspace, analysis, service_name,
                   locals, service_config, confirm, exitCode>>

\* integrate() returns; main() falls out of the try block towards `return 0`
IntegrateDone ==
    /\ pc = "integrate_end"
    /\ Say("integrate", "Integration Complete!")
    /\ Leave("done")
    /\ UNCHANGED <<script, args, repo, temp_dir, workspace, analysis, service_name,
                   locals, service_config, confirm, files, exitCode>>

---------------------------------------------------------------------------
(* main(): the finally clause and the exit status *)

\* ServiceAnalyzer.cleanup: the directory exists afterwards?
cleanup(td, ws) == IF td # None /\ ws THEN FALSE ELSE ws

\* the finally clause of main()
cleanup_after_integrate(reason, td, ws) == IF reason = "done" THEN cleanup(td, ws) ELSE ws
finally_clause(reason, td, ws) == cleanup(td, ws)

\* sys.exit(main()): main's return value, 1 for an uncaught exception
exit_status(reason) == IF reason = "done" THEN 0 ELSE 1

Finally ==
    /\ pc = "finally"
    /\ workspace' = finally_clause(pending, temp_dir, workspace)
    /\ exitCode' = exit_status(pending)
    /\ pc' = "exited"
    /\ UNCHANGED <<script, args, repo, temp_dir, analysis, service_name, locals,
                   service_config, confirm, files, console, pending>>

Next ==
    \/ MkdtempFails \/ CloneFails \/ CloneRepo
    \/ InspectorFails \/ RunInspectors
    \/ NoDockerSupportStop \/ StartConfig
    \/ PromptName \/ PromptDisplay \/ PromptDescFails \/ PromptDesc
    \/ PromptPortFails \/ PromptPort \/ PromptImage \/ PromptHostname
    \/ Proceed \/ Cancel \/ InputEOF
    \/ AddToDockerCompose \/ AddToEnvExample \/ AddToCaddyfile
    \/ AddToWizard \/ AddToSecrets \/ AddToFinalReport
    \/ MutationFails \/ ManifestReopenFails
    \/ IntegrateDone
    \/ Finally

Spec == Init /\ [][Next]_vars

---------------------------------------------------------------------------
(* Service-name prompt on every short answer: the state in which
   interactive_config asks for the service name, and that one step *)

AnswerChars == {"a", "0", "-", "_", "A", "."}
Answers == UNION {[1..n -> AnswerChars] : n \in 0..MaxNameLen}

DockerfileOnly ==
    [dockerfile |-> CHOOSE d \in Dockerfiles : d.exists, compose |-> NoCompose,
     readme |-> NoReadme, package |-> NoPackage]

\* the state main() is in when interactive_config starts, for repository r
AtConfig(r) ==
    /\ repo = r
    /\ pc = "prompt_name"
    /\ temp_dir = WorkspacePath
    /\ workspace = TRUE
    /\ analysis = run_analysis(r, args)
    /\ service_name = None
    /\ locals = EmptyDict
    /\ service_config = EmptyDict
    /\ confirm = None
    /\ files = InitialFiles
    /\ console = << <<"clone_repo", "Cloning repository...">>,
                    <<"clone_repo", "Repository cloned">>,
                    <<"main", "Analysis Results:">>,
                    <<"interactive_config", "Service Configuration">> >>
    /\ pending = "none"
    /\ exitCode = -1

InitNormalize ==
    /\ script \in {"scripts", "integrate"}
    /\ args \in [repo_name : RepoNames \cup {<<"4", "_", "x">>},
                 repo_owner : {<<"own">>}, auto : BOOLEAN]
    /\ AtConfig(DockerfileOnly)

NextNormalize == PromptNameFrom(Answers)

SpecNormalize == InitNormalize /\ [][NextNormalize]_vars

---------------------------------------------------------------------------
(* The manifest mutation on every short manifest, run and re-run *)

ManifestTokens ==
    {NL, Lit("volumes:"), Lit("services:"), Lit("app:"), Indent(2), Indent(4)}
Manifests == UNION {[1..n -> ManifestTokens] : n \in 0..MaxManifestLen}

Descriptors ==
    [name : {<<"m", "-", "a">>}, display_name : {<<"Title">>}, description : {EmptyStr},
     port : {<<"3000">>}, image : {<<"img:1">>}, hostname : {<<"m", "-", "a">>},
     needs_postgres : BOOLEAN, needs_redis : BOOLEAN]

\* how many times mutation m has completed
Runs(m) == Cardinality({i \in DOMAIN console : console[i] = <<m, "Added">>})

InitManifest ==
    /\ script = "integrate"
    /\ args \in {a \in Arguments : ~a.auto}
    /\ repo = DockerfileOnly
    /\ pc = "add_to_docker_compose"
    /\ temp_dir = WorkspacePath
    /\ workspace = TRUE
    /\ analysis = run_analysis(repo, args)
    /\ service_config \in Descriptors
    /\ service_name = service_config.name
    /\ locals = [k \in {"display_name", "description", "port", "image"} |->
                    service_config[k]]
    /\ confirm = <<"y", "e", "s">>
    /\ \E m \in Manifests : files = [InitialFiles EXCEPT !["docker-compose.yml"] = m]
    /\ console = <<>>
    /\ pending = "none"
    /\ exitCode = -1

\* add_to_docker_compose of one run; the next run meets the file it left
RunManifestMutation ==
    /\ pc = "add_to_docker_compose"
    /\ Runs(pc) < MaxRuns
    /\ files' = [files EXCEPT !["docker-compose.yml"] =
                     add_to_docker_compose(@, service_config)]
    /\ console' = console \o << <<pc, "Updating">>, <<pc, "Added">> >>
    /\ UNCHANGED <<script, args, repo, pc, temp_dir, workspace, analysis,
                   service_name, locals, service_config, confirm, pending, exitCode>>

NextManifest == RunManifestMutation

SpecManifest == InitManifest /\ [][NextManifest]_vars

---------------------------------------------------------------------------
(* Properties *)

Said(who, what) == \E i \in DOMAIN console : console[i] = <<who, what>>
Pos(who, what) == First({i \in DOMAIN console : console[i] = <<who, what>>})
Started(m) == Said(m, "Updating")
Completed(m) == Said(m, "Added")
Yes == <<"y", "e", "s">>

\* C1: whenever main() has exited and the workspace directory had been created
\* (mkdtemp returned, so temp_dir is set), the directory is gone, whatever the
\* exit path was.
C1_WorkspaceRemovedAtExit ==
    (pc = "exited" /\ temp_dir # None) => ~workspace

\* a run that created the workspace, got as far as the wizard mutation, met an
\* exception there and exited with the workspace removed
C1_Witness ==
    /\ pc = "exited"
    /\ temp_dir # None
    /\ pending = "OSError"
    /\ Started("add_to_wizard")
    /\ ~workspace

\* C2: on a repository with neither a Dockerfile nor a compose manifest the run
\* never stands at a prompt or a mutation, leaves every target file as it was,
\* and exits with status 1.
C2_NoBuildSignalStops ==
    (~repo.dockerfile.exists /\ ~repo.compose.exists) =>
        /\ pc \notin Prompts \cup Mutations \cup {"integrate_end"}
        /\ ~Said("interactive_config", "Service Configuration")
        /\ files = InitialFiles
        /\ pc = "exited" => exitCode = 1

\* a repository whose README mentions docker but that has no build file and no
\* compose manifest was analysed, and the run stopped with status 1
C2_Witness ==
    /\ pc = "exited"
    /\ pending = "no_docker_support"
    /\ repo.readme.has_docker_section
    /\ exitCode = 1
    /\ files = InitialFiles

\* C3: once the answer to "Proceed?" is anything but yes (in any letter case),
\* the run is cancelled: no mutation is started, every target file is as it was,
\* and the exit status is 1.
C3_DeclinedMeansNoMutation ==
    (confirm # None /\ lower(confirm) # Yes) =>
        /\ pending = "cancelled"
        /\ pc \in {"finally", "exited"}
        /\ \A m \in Mutations : ~Started(m)
        /\ files = InitialFiles
        /\ pc = "exited" => exitCode = 1

\* the answer "y" was given and the run exited cancelled
C3_Witness ==
    /\ pc = "exited"
    /\ confirm = <<"y">>
    /\ pending = "cancelled"
    /\ exitCode = 1

\* the mutations started so far, in the order they were started
StartedOrder ==
    LET at == SelectSeq([i \in DOMAIN console |-> console[i]],
                        LAMBDA e : e[2] = "Updating")
    IN [i \in DOMAIN at |-> at[i][1]]

SixInOrder ==
    <<"add_to_docker_compose", "add_to_env_example", "add_to_caddyfile",
      "add_to_wizard", "add_to_secrets", "add_to_final_report">>

OwnerOf(f) ==
    CASE f = "docker-compose.yml"     -> "add_to_docker_compose"
      [] f = ".env.example"           -> "add_to_env_example"
      [] f = "Caddyfile"              -> "add_to_caddyfile"
      [] f = "04_wizard.sh"           -> "add_to_wizard"
      [] f = "03_generate_secrets.sh" -> "add_to_secrets"
      [] f = "07_final_report.sh"     -> "add_to_final_report"

C4_State ==
    /\ \A m \in Mutations : Started(m) =>
           /\ 0 < Pos("clone_repo", "Repository cloned")
           /\ Pos("clone_repo", "Repository cloned") < Pos("main", "Analysis Results:")
           /\ Pos("main", "Analysis Results:") < Pos("interactive_config", "Summary:")
           /\ Pos("interactive_config", "Summary:") < Pos(m, "Updating")
           /\ lower(confirm) = Yes
    /\ Len(StartedOrder) <= Len(SixInOrder)
    /\ StartedOrder = SubSeq(SixInOrder, 1, Len(StartedOrder))
    /\ \A i \in DOMAIN StartedOrder :
           i < Len(StartedOrder) => Completed(StartedOrder[i])
    /\ (exitCode = 0 /\ script = "integrate") =>
           \A m \in Range(SixInOrder) : Completed(m)
    /\ (exitCode = 0 /\ script = "scripts") =>
           \A m \in Range(SubSeq(SixInOrder, 1, 3)) : Completed(m)

C4_Step ==
    \A f \in TargetFiles :
        files'[f] # files[f] =>
            /\ pc = OwnerOf(f)
            /\ \A g \in TargetFiles \ {f} : files'[g] = files[g]

\* C4: a mutation starts only after fetch, analysis and a yes at the gate, in
\* that order; the mutations start in the fixed order manifest, environment
\* template, reverse proxy, wizard, secrets, report, each at most once and each
\* after the one before it completed; a step changes a target file only while
\* that file's own mutation runs, and changes no other file; exit status 0
\* comes only after all six mutations completed (all three, in the scripts/
\* copy, whose integrate() has only the first three).
C4_OrderedExclusiveMutations == []C4_State /\ [][C4_Step]_vars

\* a run of the integrate copy that completed the six mutations and returned 0
C4_Witness ==
    /\ script = "integrate"
    /\ pc = "exited"
    /\ exitCode = 0
    /\ StartedOrder = SixInOrder
    /\ \A f \in TargetFiles : files[f] # InitialFiles[f]

\* C5 (as claimed): with --auto the run never stands at an input() call.
C5_AutoNeverPrompts ==
    args.auto => pc \notin Prompts

\* C6 (as claimed): every key an inspector produced has, in the FactSheet, the
\* value that inspector gave it.
C6_KeywiseUnion ==
    analysis # EmptyDict =>
        \A i \in 1..4 :
            \A k \in DOMAIN Inspectors(repo, args)[i] :
                analysis[k] = Inspectors(repo, args)[i][k]

\* C7 (as claimed): the service name interactive_config settles on is not empty
\* and its uppercased form has only letters, digits and underscores and does
\* not start with a digit.
C7_NameIsValidIdentifier ==
    service_name # None =>
        /\ service_name # EmptyStr
        /\ Range(upper(service_name)) \subseteq Range(UpperLetters) \cup Digits \cup {"_"}
        /\ service_name # EmptyStr => service_name[1] \notin Digits

\* C8: the normalized service name has only lowercase letters, digits and
\* hyphens, and normalizing it once more gives the same name; the step is
\* defined for every answer (TLC evaluates it on each).
C8_NormalizeIdempotent ==
    service_name # None =>
        /\ Range(service_name) \subseteq Range(LowerLetters) \cup Digits \cup {"-"}
        /\ NormalizeServiceName(service_name) = service_name

\* an answer made only of characters outside [a-z0-9-] was normalized to the
\* empty name (the default name is never empty here)
C8_Witness ==
    /\ pc = "prompt_display"
    /\ default_name(analysis) # EmptyStr
    /\ service_name = EmptyStr

Manifest == files["docker-compose.yml"]

\* the text "volumes:" directly followed by "\n" stands at token i of text
VolumesLineAt(text, i) ==
    i \in 1..(Len(text) - 1) /\ text[i] = Lit("volumes:") /\ text[i + 1] = NL

VolumeKey == Tok("{name}_data:", service_config.name)
VolumeKeys(text) == Cardinality({i \in DOMAIN text : text[i] = VolumeKey})

C9_Step ==
    LET old == files["docker-compose.yml"]
        new == files'["docker-compose.yml"]
    IN (new # old /\ \E i \in DOMAIN old : VolumesLineAt(old, i)) =>
           \E p \in DOMAIN old :
               /\ VolumesLineAt(old, p)
               /\ \A q \in 1..(p - 1) : ~VolumesLineAt(old, q)
               \* one more volume key, on the line right after that line
               /\ VolumeKeys(new) = VolumeKeys(old) + 1
               /\ SubSeq(new, 1, p + 1) = SubSeq(old, 1, p + 1)
               /\ SubSeq(new, p + 2, p + 4) = <<Indent(2), VolumeKey, NL>>
               \* what followed the line still follows, then the new stanza
               /\ SubSeq(new, p + 5, Len(old) + 3) = SubSeq(old, p + 2, Len(old))
               /\ Len(new) > Len(old) + 3
               \* the next run finds the same first line
               /\ VolumesLineAt(new, p)
               /\ \A q \in 1..(p - 1) : ~VolumesLineAt(new, q)

\* C9: when the manifest has a "volumes:" line followed by a newline, a run of
\* the manifest mutation adds exactly one volume key "<name>_data:", on the line
\* right after the first such line, and leaves that line the first one; so a
\* second run on the mutated file completes and inserts after the same line.
C9_VolumeKeyAfterFirstAnchor == [][C9_Step]_vars

\* two runs on a manifest with two "volumes:" lines: both keys follow the first
C9_Witness ==
    /\ Runs("add_to_docker_compose") = 2
    /\ VolumeKeys(Manifest) = 2
    /\ \E p, q \in DOMAIN Manifest :
           /\ p < q
           /\ VolumesLineAt(Manifest, p)
           /\ VolumesLineAt(Manifest, q)
           /\ SubSeq(Manifest, p + 2, p + 7)
                  = <<Indent(2), VolumeKey, NL, Indent(2), VolumeKey, NL>>

\* C10 (as claimed): the confirmation step never raises on partial metadata,
\* and no field of the descriptor it yields is None.
C10_PartialMetadataIsNoError ==
    /\ pending \notin {"TypeError", "IndexError"}
    /\ service_config # EmptyDict =>
           \A k \in {"display_name", "description", "port", "image", "hostname"} :
               service_config[k] # None

---------------------------------------------------------------------------
(* Each mutation on every short target file, run and re-run *)

\* the text made of the given lines, each ended by "\n"
FromLines(ls) == Flatten([i \in DOMAIN ls |-> ls[i] \o <<NL>>])
Texts(lines) == {FromLines(ls) : ls \in UNION {[1..n -> lines] : n \in 0..MaxFileLines}}

ManifestLines ==
    { <<Lit("services:")>>, <<Lit("volumes:")>>,
      <<Indent(2), Lit("app:")>>, <<Indent(2), Lit("app_data:")>>,
      <<Indent(4), Lit("image: app")>>, <<Indent(4), Lit("volumes:")>>,
      <<Indent(6), Lit("- app_data:/data")>> }

WizardLines ==
    { <<Lit("#!/bin/bash")>>, <<Lit("base_services_data=(")>>,
      <<Indent(4), Entry(<<"n8n">>, <<"n8n">>)>>,
      <<Indent(4), Entry(Outline, <<"Outline">>)>>,
      <<Indent(4), Entry(Docmost, <<"Docmost">>)>>,
      <<Indent(4), Lit("\"flowise\" \"Flowise (AI"), Lit(")\"")>>,
      <<Indent(4), Quoted(Outline), Lit(")")>>,
      <<Lit(")")>> }

SecretsLines ==
    { <<Lit("declare -A VARS_TO_GENERATE=(")>>,
      <<Indent(4), SecretDecl(<<"N8N">>)>>,
      <<Indent(4), SecretDecl(OUTLINE)>>,
      <<Indent(4), SecretDecl(DOCMOST)>>,
      <<Lit("# "), SecretUse(OUTLINE)>>,
      <<Lit(")")>> }

ReportLines ==
    { <<IfActive(Outline), Then>>, <<IfActive(Docmost), Then>>,
      <<IfActive(Paddleocr), Then>>, <<IfActive(PythonRunner), Then>>,
      <<Indent(2), Lit("echo")>>, <<Fi>>,
      <<Fi, Lit("le=report.txt")>>,
      <<Lit("# "), Active(Outline)>> }

\* the files a mutation may meet: for the two that only append, the shipped
\* file, an empty file and a file whose last line has no "\n"
Contents(m) ==
    CASE m = "add_to_docker_compose" -> Texts(ManifestLines)
      [] m = "add_to_wizard"         -> Texts(WizardLines)
      [] m = "add_to_secrets"        -> Texts(SecretsLines)
      [] m = "add_to_final_report"   -> Texts(ReportLines)
      [] OTHER -> {InitialFiles[TargetOf(m)], <<>>, <<Lit("N8N_HOSTNAME=")>>}

InitFiles ==
    /\ script = "integrate"
    /\ args \in {a \in Arguments : ~a.auto}
    /\ repo = DockerfileOnly
    /\ pc \in Mutations
    /\ temp_dir = WorkspacePath
    /\ workspace = TRUE
    /\ analysis = run_analysis(repo, args)
    /\ service_config \in {d \in Descriptors : d.needs_postgres /\ ~d.needs_redis}
    /\ service_name = service_config.name
    /\ locals = [k \in {"display_name", "description", "port", "image"} |->
                    service_config[k]]
    /\ confirm = <<"y", "e", "s">>
    /\ \E c \in Contents(pc) : files = [InitialFiles EXCEPT ![TargetOf(pc)] = c]
    /\ console = <<>>
    /\ pending = "none"
    /\ exitCode = -1

\* one run of mutation m; the next run meets the file this one left
Rerun(m) ==
    /\ pc = m
    /\ Runs(m) < MaxRuns
    /\ files' = [files EXCEPT ![Writes(m)] = Mutated(m, @, script, service_config)]
    /\ console' = console \o << <<m, "Updating">>, <<m, "Added">> >>
    /\ UNCHANGED <<script, args, repo, pc, temp_dir, workspace, analysis,
                   service_name, locals, service_config, confirm, pending, exitCode>>

RerunDockerCompose == Rerun("add_to_docker_compose")
RerunEnvExample == Rerun("add_to_env_example")
RerunCaddyfile == Rerun("add_to_caddyfile")
RerunWizard == Rerun("add_to_wizard")
RerunSecrets == Rerun("add_to_secrets")
RerunFinalReport == Rerun("add_to_final_report")

NextFiles ==
    \/ RerunDockerCompose \/ RerunEnvExample \/ RerunCaddyfile
    \/ RerunWizard \/ RerunSecrets \/ RerunFinalReport

SpecFiles == InitFiles /\ [][NextFiles]_vars

---------------------------------------------------------------------------
(* Properties of the configuration defaults and of the single mutations *)

\* the port the default selection is to give for the cloned repository
ExpectedPort ==
    IF repo.compose.exists /\ repo.compose.ports # <<>>
    THEN repo.compose.ports[1]
    ELSE <<"3000">>

Wizard == files["04_wizard.sh"]

\* the first line of text that is a menu entry of id, as the index of the
\* token the entry is; 0 when text has no such entry
EntryLine(text, id) == First({i \in DOMAIN text : IsEntryOf(text[i], id)})
\* the opening marker of the data block, 0 when text has none
MarkerAt(text) == First({i \in DOMAIN text : text[i] = Lit("base_services_data=(")})

\* where the new menu entry is to go: the index of the "\n" it follows
EntryPlace(text) ==
    IF EntryLine(text, Outline) # 0 THEN LineEnd(text, EntryLine(text, Outline))
    ELSE IF EntryLine(text, Docmost) # 0 THEN LineEnd(text, EntryLine(text, Docmost))
    ELSE LineEnd(text, MarkerAt(text))

C12_Step ==
    LET old == files["04_wizard.sh"]
        new == files'["04_wizard.sh"]
    IN (pc = "add_to_wizard" /\ console' # console /\ MarkerAt(old) # 0) =>
           new = InsertAt(old, EntryPlace(old), service_line(service_config))

\* C12 (as claimed): a run of the wizard mutation on a file that has the data
\* block adds exactly one menu-entry line: on the line after the outline entry
\* when the file has one, else on the line after the docmost entry when it has
\* one, else on the line after the opening marker base_services_data=( .
C12_EntryAfterAnchorOrMarker == [][C12_Step]_vars

\* the first declaration of <name>_APP_SECRET in text, 0 when there is none
DeclAt(text, name) == First({i \in DOMAIN text : text[i] = SecretDecl(name)})
\* the closing token of the secrets block: the first ")" that starts a line
ClosingAt(text) ==
    First({i \in 2..Len(text) : text[i] = Lit(")") /\ text[i - 1] = NL})

\* where the new declaration line is to go: the index of the "\n" it follows
SecretPlace(text) ==
    IF DeclAt(text, OUTLINE) # 0 THEN LineEnd(text, DeclAt(text, OUTLINE))
    ELSE IF DeclAt(text, DOCMOST) # 0 THEN LineEnd(text, DeclAt(text, DOCMOST))
    ELSE ClosingAt(text) - 1

C13_Step ==
    LET old == files["03_generate_secrets.sh"]
        new == files'["03_generate_secrets.sh"]
    IN (/\ pc = "add_to_secrets"
        /\ console' # console
        /\ DeclAt(old, OUTLINE) # 0 \/ DeclAt(old, DOCMOST) # 0 \/ ClosingAt(old) # 0) =>
           new = InsertAt(old, SecretPlace(old), secret_line(service_config))

\* C13 (as claimed): a run of the secrets mutation adds exactly one declaration
\* line ["<NAME>_APP_SECRET"]="hex:64": on the line after the OUTLINE_APP_SECRET
\* declaration when the file has one, else on the line after the
\* DOCMOST_APP_SECRET declaration when it has one, else on the line before the
\* ")" that closes the secrets block.
C13_SecretAfterAnchorOrBeforeClose == [][C13_Step]_vars

\* the line "fi" that closes the conditional block opened at token i: the
\* first line after it that is exactly fi; 0 when there is none
CloseOf(text, i) ==
    First({j \in (i + 2)..Len(text) :
              /\ text[j] = Fi
              /\ text[j - 1] = NL
              /\ j = Len(text) \/ text[j + 1] = NL})
\* the conditional block of id: the token that opens it, 0 when text has none
BlockAt(text, id) ==
    First({i \in 1..(Len(text) - 1) :
              text[i] = IfActive(id) /\ text[i + 1] = Then /\ CloseOf(text, i) # 0})
OpenAt(text, id) == First({i \in DOMAIN text : text[i] = IfActive(id)})

\* the report file after the new section went where it is to go
ReportWithSection(text, c) ==
    IF BlockAt(text, Outline) # 0
    THEN InsertAt(text, CloseOf(text, BlockAt(text, Outline)), <<NL>> \o report_block(c))
    ELSE IF BlockAt(text, Docmost) # 0
    THEN InsertAt(text, CloseOf(text, BlockAt(text, Docmost)), <<NL>> \o report_block(c))
    ELSE IF OpenAt(text, Paddleocr) # 0
    THEN InsertAt(text, OpenAt(text, Paddleocr) - 1, report_block(c) \o <<NL>>)
    ELSE IF OpenAt(text, PythonRunner) # 0
    THEN InsertAt(text, OpenAt(text, PythonRunner) - 1, report_block(c) \o <<NL>>)
    ELSE text

C14_Step ==
    (pc = "add_to_final_report" /\ console' # console) =>
        files'["07_final_report.sh"]
            = ReportWithSection(files["07_final_report.sh"], service_config)

\* C14 (as claimed): a run of the report mutation puts the new section right
\* after the fi that closes the outline block when the file has that block,
\* else right after the fi that closes the docmost block, else right before the
\* paddleocr block, else right before the python-runner block; with none of
\* the four in the file the run completes and the file is unchanged.
C14_SectionAfterBlockOrUnchanged == [][C14_Step]_vars

\* C15: when a mutation raised (it is the last one started), every mutation
\* before it has completed and its file still holds the complete edit, no later
\* mutation was started and the later files are as they were; once the run has
\* exited the workspace is gone and the exit status is not 0.
C15_NoRollback ==
    (pending = "OSError" /\ StartedOrder # <<>>) =>
        LET order == MutationOrder(script)
            k == Len(StartedOrder)
        IN /\ StartedOrder = SubSeq(order, 1, k)
           /\ \A i \in 1..(k - 1) :
                  /\ Completed(order[i])
                  /\ files[TargetOf(order[i])] # InitialFiles[TargetOf(order[i])]
                  /\ files[TargetOf(order[i])]
                         = Mutated(order[i], InitialFiles[TargetOf(order[i])], script,
                                   service_config)
           /\ \A m \in Mutations \ Range(StartedOrder) :
                  files[TargetOf(m)] = InitialFiles[TargetOf(m)]
           /\ ~Completed(order[k])
           /\ pc \in {"finally", "exited"}
           /\ pc = "exited" => (~workspace /\ exitCode # 0)

\* the wizard mutation raised: the run has exited with status 1, the manifest,
\* the environment template and the Caddyfile keep their edits, the wizard,
\* secrets and report files are untouched
C15_Witness ==
    /\ pc = "exited"
    /\ exitCode = 1
    /\ pending = "OSError"
    /\ StartedOrder = SubSeq(SixInOrder, 1, 4)
    /\ \A f \in {"docker-compose.yml", ".env.example", "Caddyfile"} :
           files[f] # InitialFiles[f]
    /\ \A f \in {"04_wizard.sh", "03_generate_secrets.sh", "07_final_report.sh"} :
           files[f] = InitialFiles[f]

\* the tokens of text that start a line which is not empty
LineStarts(text) ==
    {i \in DOMAIN text : text[i] # NL /\ (i = 1 \/ text[i - 1] = NL)}
IndentAt(text, i) == IF text[i].k = " " THEN Len(text[i].a) ELSE 0
\* the line start of the last line at or before token p that satisfies Want
LastLine(text, p, Want(_)) ==
    LET S == {i \in LineStarts(text) : i <= p /\ Want(i)}
    IN IF S = {} THEN 0 ELSE CHOOSE i \in S : \A j \in S : j <= i
\* the top-level section header the line of token p stands under
SectionOf(text, p) == LastLine(text, p, LAMBDA i : IndentAt(text, i) = 0)
\* the line before the line that starts at i, 0 for the first line
LineBefore(text, i) == LastLine(text, i - 1, LAMBDA j : TRUE)

\* text is made of top-level section headers, entries indented by two under a
\* header, and properties indented deeper under an entry; it has the sections
\* services: and volumes:
StructuredManifest(text) ==
    /\ \E i, j \in LineStarts(text) :
           text[i] = Lit("services:") /\ text[j] = Lit("volumes:")
    /\ \A i \in LineStarts(text) :
           /\ IndentAt(text, i) = 0 => text[i] \in {Lit("services:"), Lit("volumes:")}
           /\ IndentAt(text, i) > 0 => SectionOf(text, i) # 0
           /\ IndentAt(text, i) > 2 =>
                  IndentAt(text, LineBefore(text, i)) >= 2

\* the entry of the appended stanza, and the inserted volume key, in text
StanzaEntries(text, c) ==
    {i \in DOMAIN text : text[i] = Tok("{name}:", c.name)}
VolumeEntries(text, c) ==
    {i \in DOMAIN text : text[i] = Tok("{name}_data:", c.name)}
IsEntryOfSection(text, i, header) ==
    /\ i > 1
    /\ text[i - 1] = Indent(2)
    /\ i - 1 \in LineStarts(text)
    /\ SectionOf(text, i) # 0
    /\ text[SectionOf(text, i)] = header

C16_Step ==
    LET old == files["docker-compose.yml"]
        new == files'["docker-compose.yml"]
        c == service_config
    IN (/\ pc = "add_to_docker_compose"
        /\ console' # console
        /\ Runs(pc) = 0
        /\ StructuredManifest(old)) =>
           /\ StanzaEntries(new, c) # {}
           /\ \A i \in StanzaEntries(new, c) : IsEntryOfSection(new, i, Lit("services:"))
           /\ VolumeEntries(new, c) # {}
           /\ \A i \in VolumeEntries(new, c) :
                  /\ IsEntryOfSection(new, i, Lit("volumes:"))
                  /\ IndentAt(new, LineBefore(new, i - 1)) <= 2

\* C16 (as claimed): one run of the manifest mutation on a manifest made of
\* top-level sections, entries indented by two and deeper properties leaves
\* the new service stanza as an entry of the services: section and the new
\* volume key as a direct entry of the top-level volumes: section.
C16_ManifestStructureKept == [][C16_Step]_vars

\* the lines of text, without their "\n"; cur is the line read so far
RECURSIVE LinesOf(_, _)
LinesOf(text, cur) ==
    IF text = <<>> THEN (IF cur = <<>> THEN <<>> ELSE <<cur>>)
    ELSE IF Head(text) = NL THEN <<cur>> \o LinesOf(Tail(text), <<>>)
    ELSE LinesOf(Tail(text), Append(cur, Head(text)))

\* a is b with some elements left out
RECURSIVE IsSubsequence(_, _)
IsSubsequence(a, b) ==
    IF a = <<>> THEN TRUE
    ELSE IF b = <<>> THEN FALSE
    ELSE IF Head(a) = Head(b) THEN IsSubsequence(Tail(a), Tail(b))
    ELSE IsSubsequence(a, Tail(b))

C17_Step ==
    \A f \in TargetFiles :
        /\ IsSubsequence(LinesOf(files[f], <<>>), LinesOf(files'[f], <<>>))
        /\ IsSubsequence(files[f], files'[f])

\* C17 (as claimed): whatever mutation runs, first or repeated, each target
\* file afterwards has every line it had before, unaltered and in the same
\* order, and differs from the file before only by inserted text.
C17_MutationsOnlyAddLines == [][C17_Step]_vars

\* the stanza the manifest mutation appended: the manifest from the last
\* entry "<name>:" on
Stanza ==
    LET at == {i \in DOMAIN Manifest : Manifest[i] = Tok("{name}:", service_config.name)}
    IN IF at = {} THEN <<>>
       ELSE SubSeq(Manifest, CHOOSE i \in at : \A j \in at : j <= i, Len(Manifest))
StanzaHas(st, text) == \E i \in DOMAIN st : st[i] = Lit(text)
\* text stands in the stanza as a key under depends_on:
DependsOn(st, text) ==
    LET d == First({i \in DOMAIN st : st[i] = Lit("depends_on:")})
    IN /\ d # 0
       /\ \E j \in (d + 1)..Len(st) : st[j] = Lit(text) /\ st[j - 1] = Indent(6)

\* C18: the descriptor's needs_postgres and needs_redis are the FactSheet's
\* (false when it has none: only a compose manifest that mentions the word
\* sets one), whatever was typed at the prompts; and once the manifest mutation
\* has completed, the appended stanza has the key depends_on: exactly when one
\* of the two flags is set, a postgres entry under it exactly when
\* needs_postgres, and a redis entry exactly when needs_redis.
C18_DependsOnFollowsFlags ==
    /\ service_config # EmptyDict =>
           /\ service_config.needs_postgres = Get(analysis, "needs_postgres", FALSE)
           /\ service_config.needs_redis = Get(analysis, "needs_redis", FALSE)
           /\ service_config.needs_postgres
                  = (repo.compose.exists /\ "postgres" \in repo.compose.content)
           /\ service_config.needs_redis
                  = (repo.compose.exists /\ "redis" \in repo.compose.content)
    /\ Completed("add_to_docker_compose") =>
           LET st == Stanza
           IN /\ st # <<>>
              /\ StanzaHas(st, "depends_on:")
                     <=> (service_config.needs_postgres \/ service_config.needs_redis)
              /\ StanzaHas(st, "postgres:") <=> service_config.needs_postgres
              /\ StanzaHas(st, "redis:") <=> service_config.needs_redis
              /\ StanzaHas(st, "postgres:") => DependsOn(st, "postgres:")
              /\ StanzaHas(st, "redis:") => DependsOn(st, "redis:")

\* a compose manifest that mentions postgres and redis: the run confirmed with
\* yes appended a stanza with both entries under depends_on:
C18_Witness ==
    /\ Completed("add_to_docker_compose")
    /\ service_config.needs_postgres
    /\ service_config.needs_redis
    /\ DependsOn(Stanza, "postgres:")
    /\ DependsOn(Stanza, "redis:")

====
